---- MODULE Spec2Model ----
(***************************************************************************)
(* Storage layer of the e-book reader (src-tauri/src/lib.rs): the SQLite   *)
(* tables behind the one Mutex<Connection>, the books directory on disk,   *)
(* and the Tauri commands that act on them.                                *)
(*                                                                         *)
(* A command that issues several statements, or that touches the file      *)
(* system outside the connection lock, is a chain of steps; pc[p] is the   *)
(* position of caller p in its command.  The MutexGuard `conn` lives until *)
(* the command returns, so the lock is released by the step that returns.  *)
(***************************************************************************)
EXTENDS Integers, Sequences, FiniteSets, TLC

\* ------------------------------------------------------------------------
\* Bounds
\* ------------------------------------------------------------------------
\* Cap of the sum of the AUTOINCREMENT counters: the number of row inserts
\* tried in a run, over all tables.
MaxInserts == 3
\* Last value of the clock behind datetime('now').
MaxTime == 1

\* Concurrent callers of the command surface.
Procs == {1, 2}
\* The single caller of the sequential specification.
OneProc == {1}
Titles == {"A", "B"}
Filenames == {"f", "g"}
\* cover is Option<String>; "NULL" stands for None / SQL NULL.
Covers == {"NULL", "c"}
\* Contents of a book file; NoFile marks an absent file.
Datas == {1, 2}
NoFile == 0
Names == {"m", "n"}
Emojis == {"e1", "e2"}
Notes == {"", "n1"}
\* Ids a caller may pass to the by-id commands.
Ids == 1..MaxInserts
\* Ids a caller may pass to the link commands.
LinkIds == {1, 2}

VARIABLES
    schema,                 \* table name -> its columns ({} while not created)
    last_insert_rowid,      \* sqlite3_last_insert_rowid() of the connection
    foreign_keys,           \* PRAGMA foreign_keys of the linked SQLite build
    books,                  \* table books
    highlights,             \* table highlights
    bookmarks,              \* table bookmarks
    collections,            \* table collections
    highlight_collections,  \* table highlight_collections
    seq,                    \* sqlite_sequence: table name -> last AUTOINCREMENT id
    now,                    \* the clock read by datetime('now')
    files,                  \* <app data>/books/<filename> -> bytes, or NoFile
    books_dir,              \* whether <app data>/books exists
    lock,                   \* DbState mutex: 0 when free, else the holder
    pc,                     \* position of each caller
    call,                   \* locals of the command a caller is inside
    ret,                    \* the last Result handed back to a caller
    io_error                \* whether some file-system call has failed so far

vars == <<schema, last_insert_rowid, foreign_keys, books, highlights, bookmarks, collections,
          highlight_collections, seq, now, files, books_dir, lock, pc, call,
          ret, io_error>>

db == <<books, highlights, bookmarks, collections, highlight_collections, seq>>
tables == <<books, highlights, bookmarks, collections, highlight_collections>>
fs == <<files, books_dir>>

\* ------------------------------------------------------------------------
\* Rows and results
\* ------------------------------------------------------------------------
BookMetadata(id, title, filename, cover, t) ==
    [id |-> id, title |-> title, filename |-> filename, last_cfi |-> "",
     cover |-> cover, locations_data |-> "NULL", last_percentage |-> 0,
     created_at |-> t]

Highlight(id, book_title, color, notes, t) ==
    [id |-> id, book_title |-> book_title, color |-> color, notes |-> notes,
     created_at |-> t]

Bookmark(id, book_title, label, t) ==
    [id |-> id, book_title |-> book_title, label |-> label, created_at |-> t]

Collection(id, name, emoji, t) ==
    [id |-> id, name |-> name, emoji |-> emoji, created_at |-> t]

NoCall == [title |-> "", filename |-> "", cover |-> "NULL"]

Ok(p, op, rows) == [p |-> p, op |-> op, ok |-> TRUE, err |-> "", rows |-> rows]
Err(p, op, e) == [p |-> p, op |-> op, ok |-> FALSE, err |-> e, rows |-> <<>>]

\* ------------------------------------------------------------------------
\* SQL statements, as functions of the tables
\* ------------------------------------------------------------------------
BookRows(title) == {b \in books : b.title = title}

\* INSERT OR REPLACE in place of INSERT OR IGNORE: the conflicting row is
\* replaced by the new one.
InsertOrReplaceBook(id, title, filename, cover) ==
    (books \ BookRows(title)) \cup {BookMetadata(id, title, filename, cover, now)}

\* INSERT OR IGNORE INTO books (title, filename, cover): title is UNIQUE, a
\* conflicting row is skipped.
InsertOrIgnoreBook(id, title, filename, cover) ==
    IF BookRows(title) # {} THEN books
    ELSE books \cup {BookMetadata(id, title, filename, cover, now)}

\* DELETE FROM highlights WHERE <those in gone>, with the ON DELETE CASCADE of
\* highlight_collections.highlight_id when foreign keys are enforced.
CascadeHighlights(gone) ==
    IF foreign_keys
    THEN {hc \in highlight_collections :
             \A h \in gone : h.id # hc.highlight_id}
    ELSE highlight_collections

\* ON DELETE CASCADE of highlight_collections.collection_id.
CascadeCollections(gone, links) ==
    IF foreign_keys
    THEN {hc \in links : \A c \in gone : c.id # hc.collection_id}
    ELSE links

\* ------------------------------------------------------------------------
\* init_db: the statements act on a database d = [schema, rows], rows being
\* the rows of each table as records over the table's columns.
\* ------------------------------------------------------------------------
TableNames ==
    {"highlights", "books", "bookmarks", "collections", "highlight_collections"}

\* Columns of the CREATE TABLE statements.
HighlightsCreated == {"id", "book_title", "cfi", "text", "color", "created_at"}
BooksCreated == {"id", "title", "filename", "last_cfi", "cover", "created_at"}
BookmarksCreated == {"id", "book_title", "cfi", "label", "created_at"}
CollectionsCreated == {"id", "name", "emoji", "created_at"}
LinksCreated == {"highlight_id", "collection_id"}

\* Columns the commands name in their statements.
ColumnsUsed ==
    [highlights |-> HighlightsCreated \cup {"notes"},
     books |-> BooksCreated \cup {"locations_data", "last_percentage"},
     bookmarks |-> BookmarksCreated,
     collections |-> CollectionsCreated,
     highlight_collections |-> LinksCreated]

EmptyDatabase ==
    [schema |-> [t \in TableNames |-> {}], rows |-> [t \in TableNames |-> {}]]

\* CREATE TABLE IF NOT EXISTS t (cols)
CreateTableIfNotExists(d, t, cols) ==
    IF d.schema[t] # {} THEN d
    ELSE [d EXCEPT !.schema[t] = cols]

\* let _ = ALTER TABLE t ADD COLUMN col ... DEFAULT dflt.  The statement fails
\* when the column exists, and when the default is not a constant and the
\* table holds rows; its error is dropped.  Existing rows get the default.
AddColumn(d, t, col, dflt, constant) ==
    IF col \in d.schema[t] \/ d.schema[t] = {} THEN d
    ELSE IF ~constant /\ d.rows[t] # {} THEN d
    ELSE [d EXCEPT !.schema[t] = @ \cup {col},
                   !.rows[t] = {r @@ (col :> dflt) : r \in @}]

\* The statements of init_db, in order.
init_db(d) ==
    LET d1 == CreateTableIfNotExists(d, "highlights", HighlightsCreated)
        d2 == CreateTableIfNotExists(d1, "books", BooksCreated)
        d3 == CreateTableIfNotExists(d2, "bookmarks", BookmarksCreated)
        d4 == AddColumn(d3, "highlights", "color", "#facc15", TRUE)
        d5 == AddColumn(d4, "highlights", "created_at", "now", FALSE)
        d6 == AddColumn(d5, "highlights", "notes", "", TRUE)
        d7 == AddColumn(d6, "books", "locations_data", "NULL", TRUE)
        d8 == AddColumn(d7, "books", "last_percentage", "0.0", TRUE)
        d9 == CreateTableIfNotExists(d8, "collections", CollectionsCreated)
    IN  CreateTableIfNotExists(d9, "highlight_collections", LinksCreated)

\* ------------------------------------------------------------------------
\* Init: the state after run() has opened a new database and init_db has
\* created the empty tables; the books directory is not created yet.
\* ------------------------------------------------------------------------
Init ==
    /\ schema = init_db(EmptyDatabase).schema
    /\ last_insert_rowid = 0
    /\ foreign_keys \in BOOLEAN
    /\ books = {}
    /\ highlights = {}
    /\ bookmarks = {}
    /\ collections = {}
    /\ highlight_collections = {}
    /\ seq = [books |-> 0, highlights |-> 0, bookmarks |-> 0, collections |-> 0]
    /\ now = 0
    /\ files = [f \in Filenames |-> NoFile]
    /\ books_dir = FALSE
    /\ lock = 0
    /\ pc = [p \in Procs |-> "idle"]
    /\ call = [p \in Procs |-> NoCall]
    /\ ret = Ok(0, "none", <<>>)
    /\ io_error = FALSE

\* Callers that are between add_book's file write and its row insert.
PendingAddBook == {q \in Procs : pc[q] = "add_book_insert"}

\* Row inserts tried so far, with those add_book is about to try.
InsertsTried ==
    seq.books + seq.highlights + seq.bookmarks + seq.collections
        + Cardinality(PendingAddBook)

\* The clock of datetime('now') advances.
Tick ==
    /\ now < MaxTime
    /\ now' = now + 1
    /\ UNCHANGED <<schema, last_insert_rowid, foreign_keys, db, fs, lock, pc, call, ret, io_error>>

\* ------------------------------------------------------------------------
\* add_book
\* ------------------------------------------------------------------------
\* create_dir_all(books_dir) and fs::write(file_path, data), before the lock
\* is taken.  Either call may fail, and the error is returned; the directory
\* may have been created by then.
add_book_write(p, title, filename, cover, data) ==
    /\ pc[p] = "idle"
    /\ InsertsTried < MaxInserts
    /\ \/ /\ books_dir' = TRUE
          /\ files' = [files EXCEPT ![filename] = data]
          /\ pc' = [pc EXCEPT ![p] = "add_book_insert"]
          /\ call' = [call EXCEPT ![p] =
                        [title |-> title, filename |-> filename, cover |-> cover]]
          /\ UNCHANGED <<ret, io_error>>
       \/ /\ ret' = Err(p, "add_book", "Io")
          /\ io_error' = TRUE
          /\ books_dir' \in {books_dir, TRUE}
          /\ UNCHANGED <<files, pc, call>>
    /\ UNCHANGED <<schema, last_insert_rowid, foreign_keys, db, now, lock>>

\* lock, INSERT OR IGNORE, SELECT ... WHERE title = ?1, return the row.
add_book_insert(p) ==
    /\ pc[p] = "add_book_insert"
    /\ lock = 0
    /\ books' = InsertOrIgnoreBook(seq.books + 1, call[p].title,
                                   call[p].filename, call[p].cover)
    /\ seq' = [seq EXCEPT !.books = @ + 1]
    /\ ret' = Ok(p, "add_book",
                 <<CHOOSE b \in books' : b.title = call[p].title>>)
    /\ pc' = [pc EXCEPT ![p] = "idle"]
    /\ call' = [call EXCEPT ![p] = NoCall]
    /\ UNCHANGED <<schema, last_insert_rowid, foreign_keys, highlights, bookmarks, collections,
                   highlight_collections, now, fs, lock, io_error>>

\* ------------------------------------------------------------------------
\* delete_book
\* ------------------------------------------------------------------------
\* delete_book with the DELETE FROM highlights issued before the lookup of
\* the filename.
delete_book_lookup_late(p, title) ==
    /\ pc[p] = "idle"
    /\ lock = 0
    /\ highlights' = {h \in highlights : h.book_title # title}
    /\ IF BookRows(title) = {}
       THEN /\ ret' = Err(p, "delete_book", "NotFound")
            /\ UNCHANGED <<lock, pc, call>>
       ELSE /\ lock' = p
            /\ pc' = [pc EXCEPT ![p] = "delete_book_highlights"]
            /\ call' = [call EXCEPT ![p] =
                          [title |-> title,
                           filename |-> (CHOOSE b \in BookRows(title) : TRUE).filename,
                           cover |-> "NULL"]]
            /\ UNCHANGED ret
    /\ UNCHANGED <<schema, last_insert_rowid, foreign_keys, books, bookmarks, collections,
                   highlight_collections, seq, now, fs, io_error>>

\* lock, SELECT filename FROM books WHERE title = ?1; no row is an error.
delete_book_lookup(p, title) ==
    /\ pc[p] = "idle"
    /\ lock = 0
    /\ IF BookRows(title) = {}
       THEN /\ ret' = Err(p, "delete_book", "NotFound")
            /\ UNCHANGED <<lock, pc, call>>
       ELSE /\ lock' = p
            /\ pc' = [pc EXCEPT ![p] = "delete_book_highlights"]
            /\ call' = [call EXCEPT ![p] =
                          [title |-> title,
                           filename |-> (CHOOSE b \in BookRows(title) : TRUE).filename,
                           cover |-> "NULL"]]
            /\ UNCHANGED ret
    /\ UNCHANGED <<schema, last_insert_rowid, foreign_keys, db, now, fs, io_error>>

\* delete_book without its DELETE FROM highlights.
delete_book_highlights_kept(p) ==
    /\ pc[p] = "delete_book_highlights"
    /\ lock = p
    /\ pc' = [pc EXCEPT ![p] = "delete_book_row"]
    /\ UNCHANGED <<schema, last_insert_rowid, foreign_keys, db, now, fs, lock, call, ret, io_error>>

\* DELETE FROM highlights WHERE book_title = ?1
delete_book_highlights(p) ==
    /\ pc[p] = "delete_book_highlights"
    /\ lock = p
    /\ LET gone == {h \in highlights : h.book_title = call[p].title}
       IN  /\ highlights' = highlights \ gone
           /\ highlight_collections' = CascadeHighlights(gone)
    /\ pc' = [pc EXCEPT ![p] = "delete_book_row"]
    /\ UNCHANGED <<schema, last_insert_rowid, foreign_keys, books, bookmarks, collections, seq, now, fs,
                   lock, call, ret, io_error>>

\* delete_book whose second statement deletes the bookmarks of the title too.
delete_book_row_bookmarks(p) ==
    /\ pc[p] = "delete_book_row"
    /\ lock = p
    /\ books' = books \ BookRows(call[p].title)
    /\ bookmarks' = {b \in bookmarks : b.book_title # call[p].title}
    /\ pc' = [pc EXCEPT ![p] = "delete_book_file"]
    /\ UNCHANGED <<schema, last_insert_rowid, foreign_keys, highlights, collections,
                   highlight_collections, seq, now, fs, lock, call, ret,
                   io_error>>

\* DELETE FROM books WHERE title = ?1
delete_book_row(p) ==
    /\ pc[p] = "delete_book_row"
    /\ lock = p
    /\ books' = books \ BookRows(call[p].title)
    /\ pc' = [pc EXCEPT ![p] = "delete_book_file"]
    /\ UNCHANGED <<schema, last_insert_rowid, foreign_keys, highlights, bookmarks, collections,
                   highlight_collections, seq, now, fs, lock, call, ret,
                   io_error>>

\* delete_book that keeps the lock when remove_file fails (the guard is
\* released on the success path only).
delete_book_file_locked(p) ==
    /\ pc[p] = "delete_book_file"
    /\ lock = p
    /\ IF files[call[p].filename] = NoFile
       THEN /\ ret' = Ok(p, "delete_book", <<>>)
            /\ lock' = 0
            /\ UNCHANGED <<files, io_error>>
       ELSE \/ /\ files' = [files EXCEPT ![call[p].filename] = NoFile]
               /\ ret' = Ok(p, "delete_book", <<>>)
               /\ lock' = 0
               /\ UNCHANGED io_error
            \/ /\ ret' = Err(p, "delete_book", "Io")
               /\ io_error' = TRUE
               /\ UNCHANGED <<files, lock>>
    /\ pc' = [pc EXCEPT ![p] = "idle"]
    /\ call' = [call EXCEPT ![p] = NoCall]
    /\ UNCHANGED <<schema, last_insert_rowid, foreign_keys, db, now, books_dir>>

\* delete_book with the result of remove_file dropped (let _ = ...).
delete_book_file_swallowed(p) ==
    /\ pc[p] = "delete_book_file"
    /\ lock = p
    /\ ret' = Ok(p, "delete_book", <<>>)
    /\ \/ /\ files' = [files EXCEPT ![call[p].filename] = NoFile]
          /\ UNCHANGED io_error
       \/ /\ files[call[p].filename] # NoFile
          /\ io_error' = TRUE
          /\ UNCHANGED files
    /\ lock' = 0
    /\ pc' = [pc EXCEPT ![p] = "idle"]
    /\ call' = [call EXCEPT ![p] = NoCall]
    /\ UNCHANGED <<schema, last_insert_rowid, foreign_keys, db, now, books_dir>>

\* if file_path.exists() { remove_file(file_path)? }; Ok(()) and unlock.
delete_book_file(p) ==
    /\ pc[p] = "delete_book_file"
    /\ lock = p
    /\ IF files[call[p].filename] = NoFile
       THEN /\ ret' = Ok(p, "delete_book", <<>>)
            /\ UNCHANGED <<files, io_error>>
       ELSE \/ /\ files' = [files EXCEPT ![call[p].filename] = NoFile]
               /\ ret' = Ok(p, "delete_book", <<>>)
               /\ UNCHANGED io_error
            \/ /\ ret' = Err(p, "delete_book", "Io")
               /\ io_error' = TRUE
               /\ UNCHANGED files
    /\ lock' = 0
    /\ pc' = [pc EXCEPT ![p] = "idle"]
    /\ call' = [call EXCEPT ![p] = NoCall]
    /\ UNCHANGED <<schema, last_insert_rowid, foreign_keys, db, now, books_dir>>

\* ------------------------------------------------------------------------
\* wipe_all_data: execute_batch runs its statements one after the other, each
\* in its own implicit transaction, all under the one lock.
\* ------------------------------------------------------------------------
\* lock, DELETE FROM highlights
wipe_all_data_highlights(p) ==
    /\ pc[p] = "idle"
    /\ lock = 0
    /\ lock' = p
    /\ highlights' = {}
    /\ highlight_collections' = CascadeHighlights(highlights)
    /\ pc' = [pc EXCEPT ![p] = "wipe_all_data_books"]
    /\ UNCHANGED <<schema, last_insert_rowid, foreign_keys, books, bookmarks, collections, seq, now, fs,
                   call, ret, io_error>>

\* wipe_all_data with a batch that has DELETE FROM collections as well.
wipe_all_data_books_collections(p) ==
    /\ pc[p] = "wipe_all_data_books"
    /\ lock = p
    /\ books' = {}
    /\ collections' = {}
    /\ highlight_collections' = CascadeCollections(collections, highlight_collections)
    /\ pc' = [pc EXCEPT ![p] = "wipe_all_data_bookmarks"]
    /\ UNCHANGED <<schema, last_insert_rowid, foreign_keys, highlights, bookmarks,
                   seq, now, fs, lock, call, ret, io_error>>

\* DELETE FROM books
wipe_all_data_books(p) ==
    /\ pc[p] = "wipe_all_data_books"
    /\ lock = p
    /\ books' = {}
    /\ pc' = [pc EXCEPT ![p] = "wipe_all_data_bookmarks"]
    /\ UNCHANGED <<schema, last_insert_rowid, foreign_keys, highlights, bookmarks, collections,
                   highlight_collections, seq, now, fs, lock, call, ret,
                   io_error>>

\* wipe_all_data with a batch that lacks DELETE FROM bookmarks.
wipe_all_data_bookmarks_kept(p) ==
    /\ pc[p] = "wipe_all_data_bookmarks"
    /\ lock = p
    /\ pc' = [pc EXCEPT ![p] = "wipe_all_data_files"]
    /\ UNCHANGED <<schema, last_insert_rowid, foreign_keys, books, highlights, bookmarks, collections,
                   highlight_collections, seq, now, fs, lock, call, ret,
                   io_error>>

\* DELETE FROM bookmarks; VACUUM
wipe_all_data_bookmarks(p) ==
    /\ pc[p] = "wipe_all_data_bookmarks"
    /\ lock = p
    /\ bookmarks' = {}
    /\ pc' = [pc EXCEPT ![p] = "wipe_all_data_files"]
    /\ UNCHANGED <<schema, last_insert_rowid, foreign_keys, books, highlights, collections,
                   highlight_collections, seq, now, fs, lock, call, ret,
                   io_error>>

\* wipe_all_data that returns after the batch and leaves the directory alone.
wipe_all_data_files_kept(p) ==
    /\ pc[p] = "wipe_all_data_files"
    /\ lock = p
    /\ ret' = Ok(p, "wipe_all_data", <<>>)
    /\ lock' = 0
    /\ pc' = [pc EXCEPT ![p] = "idle"]
    /\ UNCHANGED <<schema, last_insert_rowid, foreign_keys, db, now, fs, call, io_error>>

\* if books_dir.exists() { remove_dir_all?; create_dir_all? }; Ok(()), unlock.
\* A failing remove_dir_all may have removed some of the files; a failing
\* create_dir_all leaves no directory.
wipe_all_data_files(p) ==
    /\ pc[p] = "wipe_all_data_files"
    /\ lock = p
    /\ IF ~books_dir
       THEN /\ ret' = Ok(p, "wipe_all_data", <<>>)
            /\ UNCHANGED <<fs, io_error>>
       ELSE \/ /\ files' = [f \in Filenames |-> NoFile]
               /\ ret' = Ok(p, "wipe_all_data", <<>>)
               /\ UNCHANGED <<books_dir, io_error>>
            \/ /\ ret' = Err(p, "wipe_all_data", "Io")
               /\ io_error' = TRUE
               /\ \/ /\ files' \in {g \in [Filenames -> Datas \cup {NoFile}] :
                                       \A f \in Filenames : g[f] \in {files[f], NoFile}}
                     /\ UNCHANGED books_dir
                  \/ /\ files' = [f \in Filenames |-> NoFile]
                     /\ books_dir' = FALSE
    /\ lock' = 0
    /\ pc' = [pc EXCEPT ![p] = "idle"]
    /\ UNCHANGED <<schema, last_insert_rowid, foreign_keys, db, now, call>>

\* ------------------------------------------------------------------------
\* highlights
\* ------------------------------------------------------------------------
\* Sequences that list every element of S once.
Perms(S) ==
    {s \in [1..Cardinality(S) -> S] :
        \A i, j \in 1..Cardinality(S) : i # j => s[i] # s[j]}

\* ORDER BY created_at DESC: rows of equal created_at come in any order.
OrderByCreatedAtDesc(S) ==
    {s \in Perms(S) :
        \A i, j \in 1..Cardinality(S) :
            i < j => s[i].created_at >= s[j].created_at}

\* add_highlight on a table whose id is INTEGER PRIMARY KEY without
\* AUTOINCREMENT: the INSERT gives the largest id in the table plus one and
\* keeps no counter.
add_highlight_rowid(p, book_title, color, notes) ==
    /\ pc[p] = "idle"
    /\ lock = 0
    /\ InsertsTried < MaxInserts
    /\ LET ids == {h.id : h \in highlights}
           id == IF ids = {} THEN 1
                 ELSE 1 + CHOOSE m \in ids : \A i \in ids : i <= m
           hl == Highlight(id, book_title, color, notes, now)
       IN  /\ highlights' = highlights \cup {hl}
           /\ ret' = Ok(p, "add_highlight", <<hl>>)
           /\ seq' = [seq EXCEPT !.highlights = IF id > @ THEN id ELSE @]
    /\ UNCHANGED <<schema, last_insert_rowid, foreign_keys, books, bookmarks, collections,
                   highlight_collections, now, fs, lock, pc, call, io_error>>

\* add_highlight with the connection used without taking the lock.
add_highlight_unlocked(p, book_title, color, notes) ==
    /\ pc[p] = "idle"
    /\ InsertsTried < MaxInserts
    /\ LET hl == Highlight(seq.highlights + 1, book_title, color, notes, now)
       IN  /\ highlights' = highlights \cup {hl}
           /\ ret' = Ok(p, "add_highlight", <<hl>>)
    /\ seq' = [seq EXCEPT !.highlights = @ + 1]
    /\ UNCHANGED <<schema, last_insert_rowid, foreign_keys, books, bookmarks, collections,
                   highlight_collections, now, fs, lock, pc, call, io_error>>

\* lock, INSERT INTO highlights, last_insert_rowid(), SELECT ... WHERE id = ?1
add_highlight(p, book_title, color, notes) ==
    /\ pc[p] = "idle"
    /\ lock = 0
    /\ InsertsTried < MaxInserts
    /\ LET hl == Highlight(seq.highlights + 1, book_title, color, notes, now)
       IN  /\ highlights' = highlights \cup {hl}
           /\ ret' = Ok(p, "add_highlight", <<hl>>)
    /\ seq' = [seq EXCEPT !.highlights = @ + 1]
    /\ UNCHANGED <<schema, last_insert_rowid, foreign_keys, books, bookmarks, collections,
                   highlight_collections, now, fs, lock, pc, call, io_error>>

\* The results get_highlights(book_title) may return.
get_highlights_rows(book_title) ==
    OrderByCreatedAtDesc({h \in highlights : h.book_title = book_title})

\* lock, SELECT ... WHERE book_title = ?1 ORDER BY created_at DESC
get_highlights(p, book_title) ==
    /\ pc[p] = "idle"
    /\ lock = 0
    /\ \E rows \in get_highlights_rows(book_title) :
          ret' = Ok(p, "get_highlights", rows)
    /\ UNCHANGED <<schema, last_insert_rowid, foreign_keys, db, now, fs, lock, pc, call, io_error>>

\* lock, UPDATE highlights SET notes = ?1 WHERE id = ?2
update_highlight_notes(p, id, notes) ==
    /\ pc[p] = "idle"
    /\ lock = 0
    /\ highlights' = {IF h.id = id THEN [h EXCEPT !.notes = notes] ELSE h :
                         h \in highlights}
    /\ ret' = Ok(p, "update_highlight_notes", <<>>)
    /\ UNCHANGED <<schema, last_insert_rowid, foreign_keys, books, bookmarks, collections,
                   highlight_collections, seq, now, fs, lock, pc, call,
                   io_error>>

\* lock, DELETE FROM highlights WHERE id = ?1
delete_highlight(p, id) ==
    /\ pc[p] = "idle"
    /\ lock = 0
    /\ LET gone == {h \in highlights : h.id = id}
       IN  /\ highlights' = highlights \ gone
           /\ highlight_collections' = CascadeHighlights(gone)
    /\ ret' = Ok(p, "delete_highlight", <<>>)
    /\ UNCHANGED <<schema, last_insert_rowid, foreign_keys, books, bookmarks, collections, seq, now, fs,
                   lock, pc, call, io_error>>

\* ------------------------------------------------------------------------
\* books: progress and locations
\* ------------------------------------------------------------------------
\* lock, UPDATE books SET last_cfi = ?1, last_percentage = ?2 WHERE title = ?3
update_book_progress(p, title, cfi, percentage) ==
    /\ pc[p] = "idle"
    /\ lock = 0
    /\ books' = {IF b.title = title
                 THEN [b EXCEPT !.last_cfi = cfi, !.last_percentage = percentage]
                 ELSE b : b \in books}
    /\ ret' = Ok(p, "update_book_progress", <<>>)
    /\ UNCHANGED <<schema, last_insert_rowid, foreign_keys, highlights, bookmarks, collections,
                   highlight_collections, seq, now, fs, lock, pc, call,
                   io_error>>

\* lock, UPDATE books SET locations_data = ?1 WHERE title = ?2
update_book_locations(p, title, locations_data) ==
    /\ pc[p] = "idle"
    /\ lock = 0
    /\ books' = {IF b.title = title
                 THEN [b EXCEPT !.locations_data = locations_data]
                 ELSE b : b \in books}
    /\ ret' = Ok(p, "update_book_locations", <<>>)
    /\ UNCHANGED <<schema, last_insert_rowid, foreign_keys, highlights, bookmarks, collections,
                   highlight_collections, seq, now, fs, lock, pc, call,
                   io_error>>

\* fs::read(<app data>/books/<filename>), without the lock.
get_book_content_result(p, filename) ==
    IF files[filename] = NoFile
    THEN Err(p, "get_book_content", "NotFound")
    ELSE [Ok(p, "get_book_content", <<>>) EXCEPT !.rows = <<files[filename]>>]

get_book_content(p, filename) ==
    /\ pc[p] = "idle"
    /\ ret' = get_book_content_result(p, filename)
    /\ UNCHANGED <<schema, last_insert_rowid, foreign_keys, db, now, fs, lock, pc, call, io_error>>

\* ------------------------------------------------------------------------
\* bookmarks
\* ------------------------------------------------------------------------
\* lock, INSERT INTO bookmarks, last_insert_rowid(), SELECT ... WHERE id = ?1
add_bookmark(p, book_title, label) ==
    /\ pc[p] = "idle"
    /\ lock = 0
    /\ InsertsTried < MaxInserts
    /\ LET bm == Bookmark(seq.bookmarks + 1, book_title, label, now)
       IN  /\ bookmarks' = bookmarks \cup {bm}
           /\ ret' = Ok(p, "add_bookmark", <<bm>>)
    /\ seq' = [seq EXCEPT !.bookmarks = @ + 1]
    /\ UNCHANGED <<schema, last_insert_rowid, foreign_keys, books, highlights, collections,
                   highlight_collections, now, fs, lock, pc, call, io_error>>

\* lock, DELETE FROM bookmarks WHERE id = ?1
delete_bookmark(p, id) ==
    /\ pc[p] = "idle"
    /\ lock = 0
    /\ bookmarks' = {b \in bookmarks : b.id # id}
    /\ ret' = Ok(p, "delete_bookmark", <<>>)
    /\ UNCHANGED <<schema, last_insert_rowid, foreign_keys, books, highlights, collections,
                   highlight_collections, seq, now, fs, lock, pc, call,
                   io_error>>

\* ------------------------------------------------------------------------
\* collections
\* ------------------------------------------------------------------------
\* create_collection with INSERT OR REPLACE: a row of the same name is
\* replaced by the new one.
create_collection_or_replace(p, name, emoji) ==
    /\ pc[p] = "idle"
    /\ lock = 0
    /\ InsertsTried < MaxInserts
    /\ LET col == Collection(seq.collections + 1, name, emoji, now)
       IN  /\ collections' = {c \in collections : c.name # name} \cup {col}
           /\ ret' = Ok(p, "create_collection", <<col>>)
    /\ seq' = [seq EXCEPT !.collections = @ + 1]
    /\ UNCHANGED <<schema, last_insert_rowid, foreign_keys, books, highlights, bookmarks,
                   highlight_collections, now, fs, lock, pc, call, io_error>>

\* lock, INSERT INTO collections (name is UNIQUE: a duplicate is an error),
\* last_insert_rowid(), SELECT ... WHERE id = ?1
create_collection(p, name, emoji) ==
    /\ pc[p] = "idle"
    /\ lock = 0
    /\ IF \E c \in collections : c.name = name
       THEN /\ ret' = Err(p, "create_collection", "Constraint")
            /\ UNCHANGED <<collections, seq>>
       ELSE /\ InsertsTried < MaxInserts
            /\ LET col == Collection(seq.collections + 1, name, emoji, now)
               IN  /\ collections' = collections \cup {col}
                   /\ ret' = Ok(p, "create_collection", <<col>>)
            /\ seq' = [seq EXCEPT !.collections = @ + 1]
    /\ UNCHANGED <<schema, last_insert_rowid, foreign_keys, books, highlights, bookmarks,
                   highlight_collections, now, fs, lock, pc, call, io_error>>

\* lock, DELETE FROM highlight_collections WHERE collection_id = ?1,
\* DELETE FROM collections WHERE id = ?1
delete_collection(p, id) ==
    /\ pc[p] = "idle"
    /\ lock = 0
    /\ LET gone == {c \in collections : c.id = id}
       IN  /\ collections' = collections \ gone
           /\ highlight_collections' =
                 CascadeCollections(gone,
                     {hc \in highlight_collections : hc.collection_id # id})
    /\ ret' = Ok(p, "delete_collection", <<>>)
    /\ UNCHANGED <<schema, last_insert_rowid, foreign_keys, books, highlights, bookmarks, seq, now, fs,
                   lock, pc, call, io_error>>

\* add_highlight_to_collection with INSERT in place of INSERT OR IGNORE: an
\* existing pair violates the primary key.
add_highlight_to_collection_insert(p, highlight_id, collection_id) ==
    /\ pc[p] = "idle"
    /\ lock = 0
    /\ LET link == [highlight_id |-> highlight_id,
                    collection_id |-> collection_id]
       IN  IF \/ link \in highlight_collections
              \/ /\ foreign_keys
                 /\ \/ \A h \in highlights : h.id # highlight_id
                    \/ \A c \in collections : c.id # collection_id
           THEN /\ ret' = Err(p, "add_highlight_to_collection", "Constraint")
                /\ UNCHANGED highlight_collections
           ELSE /\ ret' = Ok(p, "add_highlight_to_collection", <<>>)
                /\ highlight_collections' = highlight_collections \cup {link}
    /\ UNCHANGED <<schema, last_insert_rowid, foreign_keys, books, highlights, bookmarks, collections,
                   seq, now, fs, lock, pc, call, io_error>>

\* lock, INSERT OR IGNORE INTO highlight_collections: an existing pair is
\* skipped; with foreign keys enforced a missing parent row is an error that
\* OR IGNORE does not cover.
add_highlight_to_collection(p, highlight_id, collection_id) ==
    /\ pc[p] = "idle"
    /\ lock = 0
    /\ LET link == [highlight_id |-> highlight_id,
                    collection_id |-> collection_id]
       IN  IF link \in highlight_collections
           THEN /\ ret' = Ok(p, "add_highlight_to_collection", <<>>)
                /\ UNCHANGED highlight_collections
           ELSE IF foreign_keys
                   /\ \/ \A h \in highlights : h.id # highlight_id
                      \/ \A c \in collections : c.id # collection_id
           THEN /\ ret' = Err(p, "add_highlight_to_collection", "Constraint")
                /\ UNCHANGED highlight_collections
           ELSE /\ ret' = Ok(p, "add_highlight_to_collection", <<>>)
                /\ highlight_collections' = highlight_collections \cup {link}
    /\ UNCHANGED <<schema, last_insert_rowid, foreign_keys, books, highlights, bookmarks, collections,
                   seq, now, fs, lock, pc, call, io_error>>

\* lock, DELETE FROM highlight_collections WHERE highlight_id = ?1 AND
\* collection_id = ?2
remove_highlight_from_collection(p, highlight_id, collection_id) ==
    /\ pc[p] = "idle"
    /\ lock = 0
    /\ highlight_collections' =
          {hc \in highlight_collections :
              ~(hc.highlight_id = highlight_id /\ hc.collection_id = collection_id)}
    /\ ret' = Ok(p, "remove_highlight_from_collection", <<>>)
    /\ UNCHANGED <<schema, last_insert_rowid, foreign_keys, books, highlights, bookmarks, collections,
                   seq, now, fs, lock, pc, call, io_error>>

\* ------------------------------------------------------------------------
\* The queries of the listing commands.  Each operator is the set of the
\* sequences the query may return in the current state.
\* ------------------------------------------------------------------------
\* SELECT ... FROM books ORDER BY created_at DESC
get_all_books_rows == OrderByCreatedAtDesc(books)

\* SELECT ... FROM highlights ORDER BY created_at DESC
get_all_highlights_rows == OrderByCreatedAtDesc(highlights)

\* SELECT ... FROM bookmarks WHERE book_title = ?1 ORDER BY created_at DESC
get_bookmarks_rows(book_title) ==
    OrderByCreatedAtDesc({b \in bookmarks : b.book_title = book_title})

\* SELECT h.* FROM highlights h INNER JOIN highlight_collections hc
\* ON h.id = hc.highlight_id WHERE hc.collection_id = ?1
\* ORDER BY h.created_at DESC
get_highlights_by_collection_rows(collection_id) ==
    OrderByCreatedAtDesc(
        {h \in highlights :
            [highlight_id |-> h.id, collection_id |-> collection_id]
                \in highlight_collections})

\* The order of the text values of name under SQLite's BINARY collation.
NameRank == [m |-> 1, n |-> 2]

\* The query without ORDER BY name: the rows come in rowid order.
OrderByRowid(S) ==
    {s \in Perms(S) :
        \A i, j \in 1..Cardinality(S) : i < j => s[i].id <= s[j].id}

\* ORDER BY name: name is UNIQUE, rows of one name come in any order.
OrderByName(S) ==
    {s \in Perms(S) :
        \A i, j \in 1..Cardinality(S) :
            i < j => NameRank[s[i].name] <= NameRank[s[j].name]}

\* SELECT ... FROM collections ORDER BY name
get_all_collections_rows == OrderByName(collections)

\* SELECT c.* FROM collections c INNER JOIN highlight_collections hc
\* ON c.id = hc.collection_id WHERE hc.highlight_id = ?1 ORDER BY c.name
get_highlight_collections_rows(highlight_id) ==
    OrderByName(
        {c \in collections :
            [highlight_id |-> highlight_id, collection_id |-> c.id]
                \in highlight_collections})

\* ------------------------------------------------------------------------
\* Spec: two concurrent callers of the book commands.
\* ------------------------------------------------------------------------
Next ==
    \/ \E p \in Procs, t \in Titles, f \in Filenames :
          add_book_write(p, t, f, "NULL", 1)
    \/ \E p \in Procs : add_book_insert(p)
    \/ \E p \in Procs, t \in Titles : delete_book_lookup(p, t)
    \/ \E p \in Procs : delete_book_highlights(p)
    \/ \E p \in Procs : delete_book_row(p)
    \/ \E p \in Procs : delete_book_file(p)
    \/ \E p \in Procs : wipe_all_data_highlights(p)
    \/ \E p \in Procs : wipe_all_data_books(p)
    \/ \E p \in Procs : wipe_all_data_bookmarks(p)
    \/ \E p \in Procs : wipe_all_data_files(p)
    \/ \E p \in Procs : add_highlight(p, "A", "y", "")
    \/ \E p \in Procs : get_highlights(p, "A")
    \/ \E p \in Procs : add_bookmark(p, "A", "l")

Spec == Init /\ [][Next]_vars

\* ------------------------------------------------------------------------
\* SpecBooks: one caller of the catalog commands, with every argument varied.
\* ------------------------------------------------------------------------
NextBooks ==
    \/ Tick
    \/ \E p \in OneProc, t \in Titles, f \in Filenames, c \in Covers, d \in Datas :
          add_book_write(p, t, f, c, d)
    \/ \E p \in OneProc : add_book_insert(p)
    \/ \E p \in OneProc, t \in Titles : update_book_progress(p, t, "x", 50)
    \/ \E p \in OneProc, t \in Titles : delete_book_lookup(p, t)
    \/ \E p \in OneProc : delete_book_highlights(p)
    \/ \E p \in OneProc : delete_book_row(p)
    \/ \E p \in OneProc : delete_book_file(p)

SpecBooks == Init /\ [][NextBooks]_vars

\* ------------------------------------------------------------------------
\* SpecStore: one caller of the annotation and collection commands.
\* ------------------------------------------------------------------------
NextStore ==
    \/ \E p \in OneProc : add_book_write(p, "A", "f", "NULL", 1)
    \/ \E p \in OneProc : add_book_insert(p)
    \/ \E p \in OneProc, t \in Titles : update_book_progress(p, t, "x", 50)
    \/ \E p \in OneProc, t \in Titles : update_book_locations(p, t, "L")
    \/ \E p \in OneProc, t \in Titles : delete_book_lookup(p, t)
    \/ \E p \in OneProc : delete_book_highlights(p)
    \/ \E p \in OneProc : delete_book_row(p)
    \/ \E p \in OneProc : delete_book_file(p)
    \/ \E p \in OneProc : wipe_all_data_highlights(p)
    \/ \E p \in OneProc : wipe_all_data_books(p)
    \/ \E p \in OneProc : wipe_all_data_bookmarks(p)
    \/ \E p \in OneProc : wipe_all_data_files(p)
    \/ \E p \in OneProc : add_highlight(p, "A", "y", "")
    \/ \E p \in OneProc, id \in Ids :
          update_highlight_notes(p, id, "n1")
    \/ \E p \in OneProc, id \in Ids : delete_highlight(p, id)
    \/ \E p \in OneProc : add_bookmark(p, "A", "l")
    \/ \E p \in OneProc, id \in Ids : delete_bookmark(p, id)
    \/ \E p \in OneProc, n \in Names : create_collection(p, n, "e1")
    \/ \E p \in OneProc, id \in Ids : delete_collection(p, id)
    \/ \E p \in OneProc, h \in LinkIds, c \in LinkIds :
          add_highlight_to_collection(p, h, c)
    \/ \E p \in OneProc, h \in LinkIds, c \in LinkIds :
          remove_highlight_from_collection(p, h, c)

SpecStore == Init /\ [][NextStore]_vars

\* ------------------------------------------------------------------------
\* SpecColl: one caller of the commands that create and delete highlights,
\* collections and their links.
\* ------------------------------------------------------------------------
NextColl ==
    \/ \E p \in OneProc : add_book_write(p, "A", "f", "NULL", 1)
    \/ \E p \in OneProc : add_book_insert(p)
    \/ \E p \in OneProc, t \in Titles : delete_book_lookup(p, t)
    \/ \E p \in OneProc : delete_book_highlights(p)
    \/ \E p \in OneProc : delete_book_row(p)
    \/ \E p \in OneProc : delete_book_file(p)
    \/ \E p \in OneProc : wipe_all_data_highlights(p)
    \/ \E p \in OneProc : wipe_all_data_books(p)
    \/ \E p \in OneProc : wipe_all_data_bookmarks(p)
    \/ \E p \in OneProc : wipe_all_data_files(p)
    \/ \E p \in OneProc, t \in Titles : add_highlight(p, t, "y", "")
    \/ \E p \in OneProc, id \in Ids : delete_highlight(p, id)
    \/ \E p \in OneProc, n \in Names, e \in Emojis : create_collection(p, n, e)
    \/ \E p \in OneProc, id \in Ids : delete_collection(p, id)
    \/ \E p \in OneProc, h \in LinkIds, c \in LinkIds :
          add_highlight_to_collection(p, h, c)
    \/ \E p \in OneProc, h \in LinkIds, c \in LinkIds :
          remove_highlight_from_collection(p, h, c)

SpecColl == Init /\ [][NextColl]_vars

\* ------------------------------------------------------------------------
\* SpecLinks: one caller of the commands on highlights, collections and
\* their links alone.
\* ------------------------------------------------------------------------
NextLinks ==
    \/ \E p \in OneProc, t \in Titles : add_highlight(p, t, "y", "")
    \/ \E p \in OneProc, id \in Ids : delete_highlight(p, id)
    \/ \E p \in OneProc, n \in Names, e \in Emojis : create_collection(p, n, e)
    \/ \E p \in OneProc, id \in Ids : delete_collection(p, id)
    \/ \E p \in OneProc, h \in LinkIds, c \in LinkIds :
          add_highlight_to_collection(p, h, c)
    \/ \E p \in OneProc, h \in LinkIds, c \in LinkIds :
          remove_highlight_from_collection(p, h, c)

SpecLinks == Init /\ [][NextLinks]_vars

\* ------------------------------------------------------------------------
\* SpecIds: one caller of the commands that insert rows with an id and of
\* the commands that delete them, with the links that keep an id.
\* ------------------------------------------------------------------------
NextIds ==
    \/ \E p \in OneProc : add_book_write(p, "A", "f", "NULL", 1)
    \/ \E p \in OneProc : add_book_insert(p)
    \/ \E p \in OneProc : delete_book_lookup(p, "A")
    \/ \E p \in OneProc : delete_book_highlights(p)
    \/ \E p \in OneProc : delete_book_row(p)
    \/ \E p \in OneProc : delete_book_file(p)
    \/ \E p \in OneProc : wipe_all_data_highlights(p)
    \/ \E p \in OneProc : wipe_all_data_books(p)
    \/ \E p \in OneProc : wipe_all_data_bookmarks(p)
    \/ \E p \in OneProc : wipe_all_data_files(p)
    \/ \E p \in OneProc : add_highlight(p, "A", "y", "")
    \/ \E p \in OneProc, id \in Ids : delete_highlight(p, id)
    \/ \E p \in OneProc : add_bookmark(p, "A", "l")
    \/ \E p \in OneProc, id \in Ids : delete_bookmark(p, id)
    \/ \E p \in OneProc : create_collection(p, "m", "e1")
    \/ \E p \in OneProc, id \in Ids : delete_collection(p, id)
    \/ \E p \in OneProc, h \in LinkIds : add_highlight_to_collection(p, h, 1)

SpecIds == Init /\ [][NextIds]_vars

\* ------------------------------------------------------------------------
\* The add commands in two steps, INSERT and then last_insert_rowid() with
\* the SELECT by id, so that steps of other callers fall between the two.
\* call[p] keeps the arguments and, for the properties, the id that the
\* INSERT of this call was given.  last_insert_rowid is kept by these
\* handlers only: a handler that models a whole command in one step reads it
\* in the step that sets it.
\* ------------------------------------------------------------------------
\* lock, INSERT INTO highlights (book_title, cfi, text, color, notes)
add_highlight_insert(p, book_title, color, notes) ==
    /\ pc[p] = "idle"
    /\ lock = 0
    /\ InsertsTried < MaxInserts
    /\ lock' = p
    /\ highlights' = highlights \cup
          {Highlight(seq.highlights + 1, book_title, color, notes, now)}
    /\ seq' = [seq EXCEPT !.highlights = @ + 1]
    /\ last_insert_rowid' = seq.highlights + 1
    /\ pc' = [pc EXCEPT ![p] = "add_highlight_select"]
    /\ call' = [call EXCEPT ![p] = [book_title |-> book_title, color |-> color,
                                    notes |-> notes,
                                    inserted |-> seq.highlights + 1]]
    /\ UNCHANGED <<schema, foreign_keys, books, bookmarks, collections,
                   highlight_collections, now, fs, ret, io_error>>

\* add_highlight that reads its row back by book_title, as add_book does by
\* title, in place of the id of its INSERT.
add_highlight_select_by_title(p) ==
    /\ pc[p] = "add_highlight_select"
    /\ lock = p
    /\ \E h \in {x \in highlights : x.book_title = call[p].book_title} :
          ret' = Ok(p, "add_highlight", <<h>>)
    /\ lock' = 0
    /\ pc' = [pc EXCEPT ![p] = "idle"]
    /\ call' = [call EXCEPT ![p] = NoCall]
    /\ UNCHANGED <<schema, last_insert_rowid, foreign_keys, db, now, fs, io_error>>

\* id = last_insert_rowid(); SELECT ... FROM highlights WHERE id = ?1;
\* Ok(hl), unlock.  query_row fails when no row has the id.
add_highlight_select(p) ==
    /\ pc[p] = "add_highlight_select"
    /\ lock = p
    /\ LET found == {h \in highlights : h.id = last_insert_rowid}
       IN  IF found = {}
           THEN ret' = Err(p, "add_highlight", "QueryReturnedNoRows")
           ELSE \E h \in found : ret' = Ok(p, "add_highlight", <<h>>)
    /\ lock' = 0
    /\ pc' = [pc EXCEPT ![p] = "idle"]
    /\ call' = [call EXCEPT ![p] = NoCall]
    /\ UNCHANGED <<schema, last_insert_rowid, foreign_keys, db, now, fs, io_error>>

\* lock, INSERT INTO bookmarks (book_title, cfi, label)
add_bookmark_insert(p, book_title, label) ==
    /\ pc[p] = "idle"
    /\ lock = 0
    /\ InsertsTried < MaxInserts
    /\ lock' = p
    /\ bookmarks' = bookmarks \cup
          {Bookmark(seq.bookmarks + 1, book_title, label, now)}
    /\ seq' = [seq EXCEPT !.bookmarks = @ + 1]
    /\ last_insert_rowid' = seq.bookmarks + 1
    /\ pc' = [pc EXCEPT ![p] = "add_bookmark_select"]
    /\ call' = [call EXCEPT ![p] = [book_title |-> book_title, label |-> label,
                                    inserted |-> seq.bookmarks + 1]]
    /\ UNCHANGED <<schema, foreign_keys, books, highlights, collections,
                   highlight_collections, now, fs, ret, io_error>>

\* id = last_insert_rowid(); SELECT ... FROM bookmarks WHERE id = ?1;
\* Ok(bm), unlock.
add_bookmark_select(p) ==
    /\ pc[p] = "add_bookmark_select"
    /\ lock = p
    /\ LET found == {b \in bookmarks : b.id = last_insert_rowid}
       IN  IF found = {}
           THEN ret' = Err(p, "add_bookmark", "QueryReturnedNoRows")
           ELSE \E b \in found : ret' = Ok(p, "add_bookmark", <<b>>)
    /\ lock' = 0
    /\ pc' = [pc EXCEPT ![p] = "idle"]
    /\ call' = [call EXCEPT ![p] = NoCall]
    /\ UNCHANGED <<schema, last_insert_rowid, foreign_keys, db, now, fs, io_error>>

\* lock, INSERT INTO collections (name, emoji); a name that has a row fails
\* the UNIQUE constraint and `?` returns the error, which releases the lock.
create_collection_insert(p, name, emoji) ==
    /\ pc[p] = "idle"
    /\ lock = 0
    /\ IF \E c \in collections : c.name = name
       THEN /\ ret' = Err(p, "create_collection", "Constraint")
            /\ UNCHANGED <<collections, seq, last_insert_rowid, lock, pc, call>>
       ELSE /\ InsertsTried < MaxInserts
            /\ lock' = p
            /\ collections' = collections \cup
                  {Collection(seq.collections + 1, name, emoji, now)}
            /\ seq' = [seq EXCEPT !.collections = @ + 1]
            /\ last_insert_rowid' = seq.collections + 1
            /\ pc' = [pc EXCEPT ![p] = "create_collection_select"]
            /\ call' = [call EXCEPT ![p] = [name |-> name, emoji |-> emoji,
                                            inserted |-> seq.collections + 1]]
            /\ UNCHANGED ret
    /\ UNCHANGED <<schema, foreign_keys, books, highlights, bookmarks,
                   highlight_collections, now, fs, io_error>>

\* id = last_insert_rowid(); SELECT ... FROM collections WHERE id = ?1;
\* Ok(collection), unlock.
create_collection_select(p) ==
    /\ pc[p] = "create_collection_select"
    /\ lock = p
    /\ LET found == {c \in collections : c.id = last_insert_rowid}
       IN  IF found = {}
           THEN ret' = Err(p, "create_collection", "QueryReturnedNoRows")
           ELSE \E c \in found : ret' = Ok(p, "create_collection", <<c>>)
    /\ lock' = 0
    /\ pc' = [pc EXCEPT ![p] = "idle"]
    /\ call' = [call EXCEPT ![p] = NoCall]
    /\ UNCHANGED <<schema, last_insert_rowid, foreign_keys, db, now, fs, io_error>>

\* ------------------------------------------------------------------------
\* SpecAdd: two concurrent callers of the add commands, of delete_highlight
\* and of get_book_content, which takes no lock.
\* ------------------------------------------------------------------------
NextAdd ==
    \/ \E p \in Procs, t \in Titles, n \in Notes :
          add_highlight_insert(p, t, "y", n)
    \/ \E p \in Procs : add_highlight_select(p)
    \/ \E p \in Procs, t \in Titles : add_bookmark_insert(p, t, "l")
    \/ \E p \in Procs : add_bookmark_select(p)
    \/ \E p \in Procs, n \in Names : create_collection_insert(p, n, "e1")
    \/ \E p \in Procs : create_collection_select(p)
    \/ \E p \in Procs, id \in Ids : delete_highlight(p, id)
    \/ \E p \in Procs : get_book_content(p, "f")

SpecAdd == Init /\ [][NextAdd]_vars

\* ------------------------------------------------------------------------
\* SpecLive: two concurrent callers under a fair lock.  A caller that waits
\* for the lock gets it if it is free again and again (strong fairness on
\* the step that takes it); a caller that holds the lock runs on (weak
\* fairness on the steps inside the lock).  Nothing obliges a caller to start
\* a command.
\* ------------------------------------------------------------------------
NextLive ==
    \/ \E p \in Procs : add_book_write(p, "A", "f", "NULL", 1)
    \/ \E p \in Procs : add_book_insert(p)
    \/ \E p \in Procs, t \in Titles : delete_book_lookup(p, t)
    \/ \E p \in Procs : delete_book_highlights(p)
    \/ \E p \in Procs : delete_book_row(p)
    \/ \E p \in Procs : delete_book_file(p)
    \/ \E p \in Procs : wipe_all_data_highlights(p)
    \/ \E p \in Procs : wipe_all_data_books(p)
    \/ \E p \in Procs : wipe_all_data_bookmarks(p)
    \/ \E p \in Procs : wipe_all_data_files(p)
    \/ \E p \in Procs : create_collection_insert(p, "m", "e1")
    \/ \E p \in Procs : create_collection_select(p)

FairLock ==
    \A p \in Procs :
        /\ SF_vars(add_book_insert(p))
        /\ WF_vars(delete_book_highlights(p))
        /\ WF_vars(delete_book_row(p))
        /\ WF_vars(delete_book_file(p))
        /\ WF_vars(wipe_all_data_books(p))
        /\ WF_vars(wipe_all_data_bookmarks(p))
        /\ WF_vars(wipe_all_data_files(p))
        /\ WF_vars(create_collection_select(p))

SpecLive == Init /\ [][NextLive]_vars /\ FairLock

\* ------------------------------------------------------------------------
\* SpecInit: run() on the database file that an earlier start or an older
\* version of the program has left.  The migrations of init_db name the
\* columns a table of an older version may lack; a table holds no row or one.
\* ------------------------------------------------------------------------
\* The columns init_db adds by ALTER TABLE.
HighlightsMigrated == {"color", "created_at", "notes"}
BooksMigrated == {"locations_data", "last_percentage"}

\* The column sets a stored table may have ({}: the table does not exist).
StoredColumns ==
    [highlights |->
        {{}} \cup {(ColumnsUsed.highlights \ HighlightsMigrated) \cup S :
                      S \in SUBSET HighlightsMigrated},
     books |->
        {{}} \cup {(ColumnsUsed.books \ BooksMigrated) \cup S :
                      S \in SUBSET BooksMigrated},
     bookmarks |-> {{}, BookmarksCreated},
     collections |-> {{}, CollectionsCreated},
     highlight_collections |-> {{}, LinksCreated}]

\* The row sets a stored table with columns cols may hold.
StoredRows(cols) ==
    IF cols = {} THEN {{}}
    ELSE {{}, {[c \in cols |-> IF c = "id" THEN 1 ELSE "v"]}}

\* The database as init_db finds it.
Database ==
    [schema |-> schema,
     rows |-> [highlights |-> highlights, books |-> books,
               bookmarks |-> bookmarks, collections |-> collections,
               highlight_collections |-> highlight_collections]]

InitStored ==
    /\ \E h \in StoredColumns.highlights, b \in StoredColumns.books,
          m \in StoredColumns.bookmarks, c \in StoredColumns.collections,
          l \in StoredColumns.highlight_collections :
          schema = [t \in TableNames |->
                       CASE t = "highlights" -> h
                         [] t = "books" -> b
                         [] t = "bookmarks" -> m
                         [] t = "collections" -> c
                         [] t = "highlight_collections" -> l]
    /\ highlights \in StoredRows(schema["highlights"])
    /\ books \in StoredRows(schema["books"])
    /\ bookmarks = {}
    /\ collections = {}
    /\ highlight_collections = {}
    /\ last_insert_rowid = 0
    /\ foreign_keys \in BOOLEAN
    /\ seq = [books |-> Cardinality(books), highlights |-> Cardinality(highlights),
              bookmarks |-> 0, collections |-> 0]
    /\ now = 0
    /\ files = [f \in Filenames |-> NoFile]
    /\ books_dir = FALSE
    /\ lock = 0
    /\ pc = [p \in Procs |-> "idle"]
    /\ call = [p \in Procs |-> NoCall]
    /\ ret = Ok(0, "none", <<>>)
    /\ io_error = FALSE

\* run(): open the database file and call init_db on it, before any command
\* is served.
run ==
    /\ \A p \in Procs : pc[p] = "idle"
    /\ lock = 0
    /\ LET d == init_db(Database)
       IN  /\ schema' = d.schema
           /\ highlights' = d.rows["highlights"]
           /\ books' = d.rows["books"]
           /\ bookmarks' = d.rows["bookmarks"]
           /\ collections' = d.rows["collections"]
           /\ highlight_collections' = d.rows["highlight_collections"]
    /\ UNCHANGED <<last_insert_rowid, foreign_keys, seq, now, fs, lock, pc,
                   call, ret, io_error>>

NextInit == run

SpecInit == InitStored /\ [][NextInit]_vars

\* ------------------------------------------------------------------------
\* Properties
\* ------------------------------------------------------------------------
AllIdle == \A p \in Procs : pc[p] = "idle"

\* The statements of a composite command that run with the lock held.
InDbSection(p) ==
    pc[p] \in {"delete_book_highlights", "delete_book_row", "delete_book_file",
               "wipe_all_data_books", "wipe_all_data_bookmarks",
               "wipe_all_data_files"}

\* C1: whenever no command is in progress and no I/O error has occurred,
\* every row of books has its content file at <books dir>/<row.filename>.
C1_RowHasFile ==
    (AllIdle /\ ~io_error) => \A b \in books : files[b.filename] # NoFile

\* C5: no state holds a content file that no books row names.
C5_NoFileWithoutRow ==
    \A f \in Filenames :
        files[f] # NoFile => \E b \in books : b.filename = f

\* C6: a caller inside the database section of a composite command holds the
\* lock, no other caller is inside such a section, and while it is there
\* every change of the database and every result of a database command is
\* made by a step of that caller.
C6_LockExcludes ==
    [][\A p \in Procs :
          InDbSection(p) =>
              /\ lock = p
              /\ \A q \in Procs \ {p} : ~InDbSection(q)
              /\ (db' # db => pc'[p] # pc[p])
              /\ (ret' # ret /\ ret'.err # "Io" => ret'.p = p)]_vars

\* C6 witness: caller 1 is between delete_book's two DELETEs while caller 2
\* has written its file and waits for the lock.
C6_Witness ==
    /\ pc[1] = "delete_book_row"
    /\ pc[2] = "add_book_insert"
    /\ \E h \in highlights : TRUE

\* C2: books never holds two rows of one title; add_book returns the one row
\* of its title; when the title already has a row, the tables are left as
\* they were and that row is returned, so that two add_book calls in a row
\* for one title return the same id, filename, cover and created_at.
C2_AddBookIdempotent ==
    [][/\ \A b1, b2 \in books' : b1.title = b2.title => b1 = b2
       /\ \A p \in Procs, T \in Titles :
             (pc[p] = "add_book_insert" /\ call[p].title = T /\ pc'[p] = "idle")
             => /\ ret'.ok
                /\ BookRows(T)' = {ret'.rows[1]}
                /\ \A b \in BookRows(T) : books' = books /\ ret'.rows[1] = b
                /\ (ret.op = "add_book" /\ ret.ok /\ ret.rows[1].title = T)
                   => /\ ret'.rows[1].id = ret.rows[1].id
                      /\ ret'.rows[1].filename = ret.rows[1].filename
                      /\ ret'.rows[1].cover = ret.rows[1].cover
                      /\ ret'.rows[1].created_at = ret.rows[1].created_at]_vars

\* C2 witness: add_book has been called twice for one title, the second time
\* with another filename and cover and at a later time; one row exists and
\* the second call returned the first row.
C2_Witness ==
    /\ ret.op = "add_book" /\ ret.ok
    /\ seq.books = 2
    /\ books = {ret.rows[1]}
    /\ ret.rows[1].id = 1
    /\ ret.rows[1].cover = "NULL"
    /\ ret.rows[1].created_at < now
    /\ \E f \in Filenames : f # ret.rows[1].filename /\ files[f] # NoFile

\* C3: when delete_book(T) returns Ok, books has no row of title T,
\* get_highlights(T) returns the empty sequence and get_book_content of the
\* filename the row held fails with NotFound.
C3_DeleteBookCascade ==
    [][\A p \in Procs, T \in Titles, f \in Filenames :
          (/\ pc[p] = "delete_book_file" /\ pc'[p] = "idle"
           /\ call[p].title = T /\ call[p].filename = f
           /\ ret'.ok)
          => /\ BookRows(T)' = {}
             /\ get_highlights_rows(T)' = {<<>>}
             /\ get_book_content_result(p, f)' =
                   Err(p, "get_book_content", "NotFound")]_vars

\* C3 witness: delete_book has returned Ok for the one book added, which had
\* two highlights and a content file.
C3_Witness ==
    /\ ret.op = "delete_book" /\ ret.ok
    /\ seq.books = 1 /\ seq.highlights = 2
    /\ books = {} /\ highlights = {}
    /\ books_dir /\ ~io_error

\* C7: a delete_book(T) step taken when books has no row of title T returns
\* an error and changes no table, no file and no lock.
C7_DeleteUnknownBook ==
    [][\A p \in Procs, T \in Titles :
          (BookRows(T) = {} /\ delete_book_lookup(p, T))
          => /\ ret' = Err(p, "delete_book", "NotFound")
             /\ UNCHANGED <<db, fs, lock, pc, call>>]_vars

\* C7 witness: delete_book has failed with NotFound while a highlight and a
\* bookmark of a title without a books row exist.
C7_Witness ==
    /\ ret.op = "delete_book" /\ ret.err = "NotFound"
    /\ books = {}
    /\ \E h \in highlights : h.book_title = "A"
    /\ \E b \in bookmarks : b.book_title = "A"

\* C8: the last step of delete_book(T) returns Ok when the content file is
\* absent or gets removed; when the file is there and stays there (remove_file
\* failed) it returns an error, and the books row and the highlights of T are
\* gone all the same.
C8_DeleteBookFileFailure ==
    [][\A p \in Procs, T \in Titles, f \in Filenames :
          (/\ pc[p] = "delete_book_file" /\ pc'[p] = "idle"
           /\ call[p].title = T /\ call[p].filename = f)
          => /\ files[f] = NoFile => (ret'.ok /\ files' = files)
             /\ (files[f] # NoFile /\ files'[f] = NoFile) => ret'.ok
             /\ (files[f] # NoFile /\ files'[f] # NoFile)
                => /\ ret' = Err(p, "delete_book", "Io")
                   /\ files' = files
                   /\ BookRows(T)' = {}
                   /\ \A h \in highlights' : h.book_title # T
             /\ ~ret'.ok => (files[f] # NoFile /\ files' = files)
             /\ UNCHANGED db]_vars

\* C8 witness: delete_book has returned the I/O error; the row and the
\* highlight of the book are deleted and its file is still on disk.
C8_Witness ==
    /\ ret.op = "delete_book" /\ ret.err = "Io"
    /\ seq.books = 1 /\ seq.highlights >= 1
    /\ books = {} /\ highlights = {}
    /\ \E f \in Filenames : files[f] # NoFile

\* C8 witness of the other case: delete_book returned Ok although the file
\* of the row was absent already.
C8_WitnessAbsent ==
    /\ ret.op = "delete_book" /\ ret.ok
    /\ seq.books = 2 /\ books = {}
    /\ files["f"] = NoFile /\ files["g"] = NoFile
    /\ ~io_error

\* C4: every row of highlight_collections references a highlight id and a
\* collection id that exist.
C4_LinksReferenceRows ==
    \A hc \in highlight_collections :
        /\ \E h \in highlights : h.id = hc.highlight_id
        /\ \E c \in collections : c.id = hc.collection_id

\* C9: update_book_progress and update_book_locations of a title without a
\* books row, update_highlight_notes, delete_highlight, delete_bookmark and
\* delete_collection of an id that is not in their table, and
\* remove_highlight_from_collection of a pair that is not linked, return Ok
\* and leave every table, every counter and every file as it was.
C9_UnknownKeyIsNoop ==
    [][\A p \in Procs :
          /\ \A T \in Titles :
                (/\ BookRows(T) = {}
                 /\ \/ update_book_progress(p, T, "x", 50)
                    \/ update_book_locations(p, T, "L"))
                => (ret'.ok /\ UNCHANGED <<db, fs>>)
          /\ \A id \in Ids :
                (/\ \A h \in highlights : h.id # id
                 /\ \/ update_highlight_notes(p, id, "n1")
                    \/ delete_highlight(p, id))
                => (ret'.ok /\ UNCHANGED <<db, fs>>)
          /\ \A id \in Ids :
                (/\ \A b \in bookmarks : b.id # id
                 /\ delete_bookmark(p, id))
                => (ret'.ok /\ UNCHANGED <<db, fs>>)
          /\ \A id \in Ids :
                (/\ \A c \in collections : c.id # id
                 /\ delete_collection(p, id))
                => (ret'.ok /\ UNCHANGED <<db, fs>>)
          /\ \A h \in LinkIds, c \in LinkIds :
                (/\ [highlight_id |-> h, collection_id |-> c]
                        \notin highlight_collections
                 /\ remove_highlight_from_collection(p, h, c))
                => (ret'.ok /\ UNCHANGED <<db, fs>>)]_vars

\* C10: collections never holds two rows of one name, and create_collection
\* of a name that has a row returns the constraint error and changes no
\* table and no counter.
C10_CollectionNameUnique ==
    [][/\ \A c1, c2 \in collections' : c1.name = c2.name => c1 = c2
       /\ \A p \in Procs, n \in Names, e \in Emojis :
             (/\ \E c \in collections : c.name = n
              /\ create_collection(p, n, e))
             => /\ ret' = Err(p, "create_collection", "Constraint")
                /\ UNCHANGED <<db, fs>>]_vars

\* C10 witness: create_collection has failed on the name of the one row
\* there is, after another collection was created and deleted.
C10_Witness ==
    /\ ret.op = "create_collection" /\ ret.err = "Constraint"
    /\ seq.collections = 2
    /\ Cardinality(collections) = 1

\* The ids of the rows of a query result.
ResultIds(rows) == {rows[i].id : i \in DOMAIN rows}

\* C11: add_highlight_to_collection(h, c) for an existing highlight h and an
\* existing collection c succeeds whether or not the pair is linked already
\* and leaves the association table holding the pair once and every other
\* pair as it was; remove_highlight_from_collection(h, c) succeeds, removes
\* the pair and no other, after which get_highlights_by_collection(c) does
\* not return h and get_highlight_collections(h) does not return c.
C11_LinkIdempotent ==
    [][\A p \in OneProc, h \in LinkIds, c \in LinkIds :
          LET link == [highlight_id |-> h, collection_id |-> c]
          IN  /\ (/\ \E x \in highlights : x.id = h
                  /\ \E y \in collections : y.id = c
                  /\ add_highlight_to_collection(p, h, c))
                 => /\ ret'.ok
                    /\ highlight_collections' = highlight_collections \cup {link}
                    /\ \A rows \in get_highlights_by_collection_rows(c)' :
                          h \in ResultIds(rows)
                    /\ \A rows \in get_highlight_collections_rows(h)' :
                          c \in ResultIds(rows)
              /\ remove_highlight_from_collection(p, h, c)
                 => /\ ret'.ok
                    /\ highlight_collections' = highlight_collections \ {link}
                    /\ \A rows \in get_highlights_by_collection_rows(c)' :
                          h \notin ResultIds(rows)
                    /\ \A rows \in get_highlight_collections_rows(h)' :
                          c \notin ResultIds(rows)]_vars

\* C11 witness: highlight 1 was unlinked from collection 1, both rows exist,
\* and the link of highlight 2 to collection 1 is still there.
C11_Witness ==
    /\ ret.op = "remove_highlight_from_collection" /\ ret.ok
    /\ \E x \in highlights : x.id = 1
    /\ \E y \in collections : y.id = 1
    /\ get_highlights_by_collection_rows(1) # {<<>>}
    /\ highlight_collections = {[highlight_id |-> 2, collection_id |-> 1]}

\* C12: when wipe_all_data returns Ok, get_all_books and get_all_highlights
\* return the empty list and get_bookmarks(T) returns the empty list for
\* every title T, whatever the tables held when it started.
C12_WipeEmptiesLists ==
    [][\A p \in Procs :
          (wipe_all_data_files(p) /\ ret'.ok)
          => /\ get_all_books_rows' = {<<>>}
             /\ get_all_highlights_rows' = {<<>>}
             /\ \A T \in Titles : get_bookmarks_rows(T)' = {<<>>}]_vars

\* C12 witness: wipe_all_data has returned Ok after a book, a highlight and a
\* bookmark were inserted, and the three tables are empty.
C12_Witness ==
    /\ ret.op = "wipe_all_data" /\ ret.ok
    /\ seq.books = 1 /\ seq.highlights = 1 /\ seq.bookmarks = 1
    /\ books = {} /\ highlights = {} /\ bookmarks = {}
    /\ books_dir

\* C13 as stated: when wipe_all_data returns Ok, the books directory exists
\* and holds no file.
C13_DirExistsEmpty ==
    [][\A p \in Procs :
          (wipe_all_data_files(p) /\ ret'.ok)
          => /\ books_dir'
             /\ \A f \in Filenames : files'[f] = NoFile]_vars

\* C13 amended: when wipe_all_data returns Ok, the books directory holds no
\* file and exists exactly if it existed when the command looked for it; a
\* directory that no add_book has created is not created by wipe_all_data.
C13_DirEmptyExistsAsBefore ==
    [][\A p \in Procs :
          (wipe_all_data_files(p) /\ ret'.ok)
          => /\ books_dir' = books_dir
             /\ \A f \in Filenames : files'[f] = NoFile]_vars

\* C13 witness: wipe_all_data has returned Ok before any add_book was called,
\* and there is no books directory.
C13_Witness ==
    /\ ret.op = "wipe_all_data" /\ ret.ok
    /\ seq.books = 0 /\ ~io_error
    /\ ~books_dir

\* C14: no step of delete_book changes the bookmarks table, so that every
\* bookmark row, those of the deleted title included, is the same after the
\* command as before it and get_bookmarks(T) returns what it returned before.
C14_DeleteBookKeepsBookmarks ==
    [][\A p \in Procs :
          (\/ \E T \in Titles : delete_book_lookup(p, T)
           \/ delete_book_highlights(p)
           \/ delete_book_row(p)
           \/ delete_book_file(p))
          => /\ bookmarks' = bookmarks
             /\ \A T \in Titles : get_bookmarks_rows(T)' = get_bookmarks_rows(T)]_vars

\* C14 witness: caller 1 has deleted the row of book "A" and a bookmark of
\* "A" is still there.
C14_Witness ==
    /\ pc[1] = "delete_book_file"
    /\ call[1].title = "A"
    /\ BookRows("A") = {}
    /\ \E b \in bookmarks : b.book_title = "A"

\* The steps of wipe_all_data.
wipe_all_data(p) ==
    \/ wipe_all_data_highlights(p)
    \/ wipe_all_data_books(p)
    \/ wipe_all_data_bookmarks(p)
    \/ wipe_all_data_files(p)

\* C15 as stated: no step of wipe_all_data removes a row of collections or a
\* row of highlight_collections.
C15_WipeKeepsCollections ==
    [][\A p \in OneProc :
          wipe_all_data(p)
          => /\ collections \subseteq collections'
             /\ highlight_collections \subseteq highlight_collections']_vars

\* C15 amended: no step of wipe_all_data changes collections or adds a row
\* to highlight_collections; without foreign-key enforcement it leaves
\* highlight_collections unchanged, and with enforcement it removes exactly
\* the association rows of the highlights it deletes (ON DELETE CASCADE).
C15_WipeKeepsCollectionsCascadesLinks ==
    [][\A p \in OneProc :
          wipe_all_data(p)
          => /\ collections' = collections
             /\ highlight_collections' \subseteq highlight_collections
             /\ ~foreign_keys => highlight_collections' = highlight_collections
             /\ foreign_keys =>
                   \A l \in highlight_collections :
                       l \in highlight_collections'
                       <=> \A h \in highlights \ highlights' :
                               h.id # l.highlight_id]_vars

\* C15 witness: wipe_all_data has run its batch without foreign-key
\* enforcement; a collection and the association row of a deleted highlight
\* are still there.
C15_Witness ==
    /\ pc[1] = "wipe_all_data_files"
    /\ ~foreign_keys
    /\ highlights = {}
    /\ collections # {}
    /\ \E l \in highlight_collections :
          /\ l.highlight_id <= seq.highlights
          /\ \E c \in collections : c.id = l.collection_id

\* C16: every list get_all_books may return has the books in the reverse of
\* the order in which add_book inserted them (ids are assigned in insertion
\* order), rows of one created_at value included.
C16_NewestFirst ==
    \A rows \in get_all_books_rows :
        \A i, j \in DOMAIN rows : i < j => rows[i].id > rows[j].id

\* C17: get_all_collections returns every row of collections once, in
\* strictly ascending order of name, whatever the order of creation; and
\* get_highlight_collections(h) returns once each exactly the collections
\* that an association row links to h, in strictly ascending order of name.
C17_CollectionsByName ==
    /\ get_all_collections_rows # {}
    /\ \A rows \in get_all_collections_rows :
          /\ Len(rows) = Cardinality(collections)
          /\ {rows[i] : i \in DOMAIN rows} = collections
          /\ \A i, j \in DOMAIN rows :
                i < j => NameRank[rows[i].name] < NameRank[rows[j].name]
    /\ \A h \in LinkIds :
          LET linked == {c \in collections :
                            \E l \in highlight_collections :
                                l.highlight_id = h /\ l.collection_id = c.id}
          IN  /\ get_highlight_collections_rows(h) # {}
              /\ \A rows \in get_highlight_collections_rows(h) :
                    /\ Len(rows) = Cardinality(linked)
                    /\ {rows[i] : i \in DOMAIN rows} = linked
                    /\ \A i, j \in DOMAIN rows :
                          i < j => NameRank[rows[i].name] < NameRank[rows[j].name]

\* C17 witness: collection "n" was created before collection "m", both are
\* linked to highlight 1 and a third collection is not.
C17_Witness ==
    /\ \E c1, c2 \in collections :
          /\ c1.name = "n" /\ c2.name = "m" /\ c1.id < c2.id
          /\ [highlight_id |-> 1, collection_id |-> c1.id] \in highlight_collections
          /\ [highlight_id |-> 1, collection_id |-> c2.id] \in highlight_collections
    /\ \E h \in highlights : h.id = 1
    /\ get_highlight_collections_rows(2) = {<<>>}

\* Row r is kept in rows: some row has every column of r with r's value.
RowKept(r, rows) ==
    \E r2 \in rows :
        /\ DOMAIN r \subseteq DOMAIN r2
        /\ \A col \in DOMAIN r : r2[col] = r[col]

\* C18: init_db, run on any stored database, ends with the five tables and
\* every column the commands name, removes no table, no column and no row,
\* and a second init_db on its result changes nothing.
C18_InitDbConverges ==
    [][run =>
          /\ \A t \in TableNames : ColumnsUsed[t] \subseteq schema'[t]
          /\ \A t \in TableNames : schema[t] \subseteq schema'[t]
          /\ \A t \in TableNames :
                \A r \in Database.rows[t] : RowKept(r, Database'.rows[t])
          /\ init_db(Database') = Database']_vars

\* C19: add_highlight returns Ok with one row, which is in the table, has the
\* id that the INSERT of this very call was given and the book_title, color
\* and notes of its arguments; likewise add_bookmark and create_collection;
\* this with two callers whose steps interleave.
C19_AddReturnsOwnRow ==
    [][\A p \in Procs :
          /\ add_highlight_select(p)
             => /\ ret'.ok /\ ret'.p = p /\ Len(ret'.rows) = 1
                /\ ret'.rows[1] \in highlights'
                /\ ret'.rows[1].id = call[p].inserted
                /\ ret'.rows[1].book_title = call[p].book_title
                /\ ret'.rows[1].color = call[p].color
                /\ ret'.rows[1].notes = call[p].notes
          /\ add_bookmark_select(p)
             => /\ ret'.ok /\ ret'.p = p /\ Len(ret'.rows) = 1
                /\ ret'.rows[1] \in bookmarks'
                /\ ret'.rows[1].id = call[p].inserted
                /\ ret'.rows[1].book_title = call[p].book_title
                /\ ret'.rows[1].label = call[p].label
          /\ create_collection_select(p)
             => /\ ret'.ok /\ ret'.p = p /\ Len(ret'.rows) = 1
                /\ ret'.rows[1] \in collections'
                /\ ret'.rows[1].id = call[p].inserted
                /\ ret'.rows[1].name = call[p].name
                /\ ret'.rows[1].emoji = call[p].emoji]_vars

\* C19 witness: add_highlight of caller 2 has returned the row of id 2 with
\* its notes, while highlight 1 of the same book has other notes and caller 1
\* is inside add_bookmark.
C19_Witness ==
    /\ ret.op = "add_highlight" /\ ret.ok /\ ret.p = 2
    /\ ret.rows[1].id = 2 /\ ret.rows[1].notes = "n1"
    /\ \E h \in highlights :
          h.id = 1 /\ h.book_title = ret.rows[1].book_title /\ h.notes = ""
    /\ pc[1] = "add_bookmark_select"

\* C20: a caller that is not inside a command does not hold the lock, the
\* holder of the lock is inside a command, and every caller that is inside a
\* command, waiting for the lock or holding it, eventually returns from it.
C20_EveryCallReturns ==
    /\ [](\A p \in Procs :
             /\ pc[p] = "idle" => lock # p
             /\ lock = p => pc[p] # "idle")
    /\ \A p \in Procs : (pc[p] # "idle") ~> (pc[p] = "idle")

\* C20 witness: caller 1 has written its file and waits for the lock, which
\* caller 2 holds inside delete_book, about to remove a file that exists.
C20_Witness ==
    /\ pc[1] = "add_book_insert"
    /\ lock = 2
    /\ pc[2] = "delete_book_file"
    /\ files[call[2].filename] # NoFile

\* C21: a step of add_book for title T or of delete_book for title T leaves
\* what get_book_content returns for the file of every books row of another
\* title as it was, also when that row names the same file.
C21_OtherBooksContentKept ==
    [][\A p \in OneProc, T \in Titles :
          (\/ \E f \in Filenames, c \in Covers, d \in Datas :
                 add_book_write(p, T, f, c, d)
           \/ call[p].title = T /\ add_book_insert(p)
           \/ delete_book_lookup(p, T)
           \/ call[p].title = T /\ delete_book_highlights(p)
           \/ call[p].title = T /\ delete_book_row(p)
           \/ call[p].title = T /\ delete_book_file(p))
          => \A U \in books :
                U.title # T =>
                   get_book_content_result(p, U.filename)'
                      = get_book_content_result(p, U.filename)]_vars

\* The rows of the four tables whose id is AUTOINCREMENT.
IdTables ==
    [books |-> books, highlights |-> highlights, bookmarks |-> bookmarks,
     collections |-> collections]

\* C22: in each of books, highlights, bookmarks and collections the counter
\* of assigned ids never decreases, every row has an id that was assigned,
\* and a row that a step brings in has an id above every id assigned before
\* the step, whatever was deleted or wiped before; so an id that denoted a
\* row never denotes a row created later.
C22_IdsNeverReused ==
    [][\A t \in DOMAIN IdTables :
          /\ seq'[t] >= seq[t]
          /\ \A r \in IdTables'[t] :
                /\ r.id <= seq'[t]
                /\ (\A r0 \in IdTables[t] : r0.id # r.id) => r.id > seq[t]
                /\ \A r0 \in IdTables[t] :
                      r0.id = r.id => r0.created_at = r.created_at
          /\ \A r1, r2 \in IdTables'[t] : r1.id = r2.id => r1 = r2]_vars

\* C22 witness: the last command, add_highlight, has returned the row of id 2
\* and the row of id 1 is gone; an association row still names highlight 1.
C22_Witness ==
    /\ ret.op = "add_highlight" /\ ret.ok
    /\ ret.rows[1].id = 2
    /\ highlights = {ret.rows[1]}
    /\ \E l \in highlight_collections : l.highlight_id = 1

====
